---- MODULE Spec2Model ----
(***************************************************************************)
(* Model of alienware_lights.py: the keyboard (Darfon, feature reports)    *)
(* and tron (AW-ELC, output reports) protocol encoders, the two device     *)
(* sessions, and one run of main() from argv to process exit.              *)
(***************************************************************************)
EXTENDS Integers, Sequences, FiniteSets, TLC

\* ---------------------------------------------------------------------------
\* Bounds of the model
\* ---------------------------------------------------------------------------

\* longest list of colour tokens on the command line
MaxColors == 2

\* longest zone list handed to an encoder method called on its own
MaxZones == 2

\* longest list of colour tokens in the runs with long colour lists
MaxLongColors == 19

\* ---------------------------------------------------------------------------
\* Program constants
\* ---------------------------------------------------------------------------

NUM_KEYS == 136
KEY_CHUNK == 15
KBD_REPORT_LEN == 64
KBD_REPORT_ID == 204
TRON_REPORT_LEN == 33
TRON_REPORT_ID == 3
MORPH_CAP == 3

RING_ZONES == <<10, 11, 12, 13, 14, 15, 16, 17, 18, 19>>
LOGO_ZONES == <<0, 1>>
POWER_STATES == <<91, 92, 93, 94, 95, 96>>

MORPH_EFFECT == 2
COLOR_EFFECT == 0
COLOR_MODE == 208
MORPH_MODE == 207
PULSE_MODE == 220

\* default colours of main(): magenta for static/pulse, rainbow otherwise
DEFAULT_COLOR == <<255, 20, 147>>
RAINBOW == << <<255, 0, 0>>, <<0, 255, 0>>, <<0, 0, 255>> >>

KBD_DEV == "/dev/hidraw1"
TRON_DEV == "/dev/hidraw2"
HID_PHYS == "usb-0000:00:14.0-8"

\* ---------------------------------------------------------------------------
\* Helpers for Python list arithmetic
\* ---------------------------------------------------------------------------

\* [0] * n : the empty list when n <= 0
Zeros(n) == [i \in 1..n |-> 0]

\* list(range(a, b))
Range(a, b) == [i \in 1..(b - a) |-> a + i - 1]

Min(a, b) == IF a < b THEN a ELSE b

\* s[:n]
Take(s, n) == SubSeq(s, 1, Min(n, Len(s)))

\* ---------------------------------------------------------------------------
\* parse_color
\* ---------------------------------------------------------------------------

\* value of one hexadecimal digit, as int(_, 16) reads it
HexVal(c) ==
    CASE c = "0" -> 0 [] c = "1" -> 1 [] c = "2" -> 2 [] c = "3" -> 3
      [] c = "4" -> 4 [] c = "5" -> 5 [] c = "6" -> 6 [] c = "7" -> 7
      [] c = "8" -> 8 [] c = "9" -> 9
      [] c = "A" -> 10 [] c = "B" -> 11 [] c = "C" -> 12
      [] c = "D" -> 13 [] c = "E" -> 14 [] c = "F" -> 15
      [] c = "a" -> 10 [] c = "b" -> 11 [] c = "c" -> 12
      [] c = "d" -> 13 [] c = "e" -> 14 [] c = "f" -> 15

\* s.lstrip("#")
RECURSIVE LStripHash(_)
LStripHash(s) ==
    IF s # <<>> /\ Head(s) = "#" THEN LStripHash(Tail(s)) ELSE s

\* int(s[a:a+2], 16) on a stripped token
HexPair(s, a) == 16 * HexVal(s[a]) + HexVal(s[a + 1])

parse_color(tok) ==
    LET s == LStripHash(tok)
    IN  <<HexPair(s, 1), HexPair(s, 3), HexPair(s, 5)>>

\* [parse_color(c) for c in color_args]
ParseAll(toks) == [i \in 1..Len(toks) |-> parse_color(toks[i])]

\* ---------------------------------------------------------------------------
\* Keyboard encoder: each operator is the list of payloads the method hands
\* to Keyboard._send, in order
\* ---------------------------------------------------------------------------

\* Keyboard._send: the 64-byte feature report built from a payload
KbdPkt(data) ==
    <<KBD_REPORT_ID>> \o data \o Zeros(KBD_REPORT_LEN - 1 - Len(data))

KbdReset == << <<148>> >>

KbdCommit == << <<139, 1, 255>> >>

KbdDisableEffect == << <<128, 1, 254, 0, 0, 1, 1, 1>> >>

\* for k in keys: data += [k + 1, r, g, b]
RECURSIVE KeyBytes(_, _, _, _)
KeyBytes(keys, r, g, b) ==
    IF keys = <<>> THEN <<>>
    ELSE <<Head(keys) + 1, r, g, b>> \o KeyBytes(Tail(keys), r, g, b)

\* KeyChunk running one key into the following chunk
KeyChunk_Overlap(i, r, g, b) ==
    <<140, 2, 0>>
        \o KeyBytes(Range(i, Min(i + KEY_CHUNK + 1, NUM_KEYS)), r, g, b)

\* KeyChunk with the last key index excluded (0x87 for 0x88)
KeyChunk_ShortRange(i, r, g, b) ==
    <<140, 2, 0>>
        \o KeyBytes(Range(i, Min(i + KEY_CHUNK, NUM_KEYS - 1)), r, g, b)

\* one iteration of the chunk loop, starting at key i
KeyChunk(i, r, g, b) ==
    <<140, 2, 0>> \o KeyBytes(Range(i, Min(i + KEY_CHUNK, NUM_KEYS)), r, g, b)

\* for i in range(0, 0x88, 15): ...
RECURSIVE ChunkLoop(_, _, _, _)
ChunkLoop(i, r, g, b) ==
    IF i >= NUM_KEYS THEN <<>>
    ELSE <<KeyChunk(i, r, g, b)>> \o ChunkLoop(i + KEY_CHUNK, r, g, b)

KbdSetAllKeys(r, g, b) == ChunkLoop(0, r, g, b) \o << <<140, 19>> >>

\* for r, g, b in colors: data += [r, g, b]
RECURSIVE ColorBytes(_)
ColorBytes(colors) ==
    IF colors = <<>> THEN <<>>
    ELSE Head(colors) \o ColorBytes(Tail(colors))

KbdGlobalEffect(eff_type, tempo, colors) ==
    << <<128, eff_type, tempo, 0, 0, 1, 1, 1>>
         \o <<Len(colors) - 1>> \o ColorBytes(colors) >>

KbdStatic(r, g, b) ==
    KbdReset \o KbdDisableEffect \o KbdSetAllKeys(r, g, b) \o KbdCommit

KbdBreathe(colors) ==
    KbdReset \o KbdDisableEffect \o KbdGlobalEffect(2, 7, colors) \o KbdCommit

KbdSpectrum ==
    KbdReset \o KbdDisableEffect \o KbdGlobalEffect(2, 5, RAINBOW) \o KbdCommit

KbdWave ==
    KbdReset \o KbdDisableEffect \o KbdGlobalEffect(3, 5, RAINBOW) \o KbdCommit

\* KbdPulse with the disable-effect step left out
KbdPulse_NoDisable(r, g, b) ==
    KbdReset \o KbdGlobalEffect(8, 7, << <<r, g, b>> >>) \o KbdCommit


KbdPulse(r, g, b) ==
    KbdReset \o KbdDisableEffect \o KbdGlobalEffect(8, 7, << <<r, g, b>> >>)
        \o KbdCommit

KbdMorph(colors) ==
    KbdReset \o KbdDisableEffect \o KbdGlobalEffect(2, 5, colors) \o KbdCommit

KbdOff == KbdStatic(0, 0, 0)

\* ---------------------------------------------------------------------------
\* Tron encoder: each operator is the list of payloads handed to Tron._send
\* ---------------------------------------------------------------------------

\* Tron._send: the 33-byte output report built from a payload
TronPkt(data) ==
    <<TRON_REPORT_ID>> \o data \o Zeros(TRON_REPORT_LEN - 1 - Len(data))

TronSetRing(actions, zones) ==
    << <<33, 0, 4, 0, 255>>,
       <<33, 0, 1, 0, 255>>,
       <<35, 1, 0, Len(zones)>> \o zones,
       <<36>> \o actions,
       <<33, 0, 3, 0, 255>> >>

\* LogoGroup with the state saved before its zones and action are sent
LogoGroup_SaveFirst(state, actions, zones) ==
    << <<34, 0, 4, 0, state>>,
       <<34, 0, 1, 0, state>>,
       <<34, 0, 2, 0, state>>,
       <<35, 1, 0, Len(zones)>> \o zones,
       <<36>> \o actions >>

\* LogoGroup with the play command issued inside the power-state loop
LogoGroup_WithPlay(state, actions, zones) ==
    << <<34, 0, 4, 0, state>>,
       <<34, 0, 1, 0, state>>,
       <<35, 1, 0, Len(zones)>> \o zones,
       <<36>> \o actions,
       <<34, 0, 2, 0, state>>,
       <<33, 0, 5, 0, 255>> >>

\* body of the power-state loop for one state
LogoGroup(state, actions, zones) ==
    << <<34, 0, 4, 0, state>>,
       <<34, 0, 1, 0, state>>,
       <<35, 1, 0, Len(zones)>> \o zones,
       <<36>> \o actions,
       <<34, 0, 2, 0, state>> >>

\* for state in states: ...
RECURSIVE LogoLoop(_, _, _)
LogoLoop(states, actions, zones) ==
    IF states = <<>> THEN <<>>
    ELSE LogoGroup(Head(states), actions, zones)
             \o LogoLoop(Tail(states), actions, zones)


TronSetLogos(actions, zones) ==
    << <<33, 0, 3, 0, 255>> >>
        \o LogoLoop(POWER_STATES, actions, zones)
        \o << <<33, 0, 5, 0, 255>> >>

TronStaticAction(r, g, b) == <<COLOR_EFFECT, 7, COLOR_MODE, 0, 250, r, g, b>>

RECURSIVE MorphBlocks(_)
MorphBlocks(colors) ==
    IF colors = <<>> THEN <<>>
    ELSE <<MORPH_EFFECT, 7, MORPH_MODE, 0, 100>> \o Head(colors)
             \o MorphBlocks(Tail(colors))

\* TronMorphActions without the colors[:3] slice
TronMorphActions_NoCap(colors) == MorphBlocks(colors)

TronMorphActions(colors) == MorphBlocks(Take(colors, MORPH_CAP))

TronPulseAction(r, g, b) == <<1, 7, PULSE_MODE, 0, 100, r, g, b>>

\* if ring: _set_ring(action);  if logos: _set_logos(action)
\* the ring/logos dispatch with the logos programmed first
TronApply_LogosFirst(action, ring, logos) ==
    (IF logos THEN TronSetLogos(action, LOGO_ZONES) ELSE <<>>)
        \o (IF ring THEN TronSetRing(action, RING_ZONES) ELSE <<>>)

TronApply(action, ring, logos) ==
    (IF ring THEN TronSetRing(action, RING_ZONES) ELSE <<>>)
        \o (IF logos THEN TronSetLogos(action, LOGO_ZONES) ELSE <<>>)

TronStatic(r, g, b, ring, logos) ==
    TronApply(TronStaticAction(r, g, b), ring, logos)

TronBreathe(colors, ring, logos) ==
    TronApply(TronMorphActions(colors), ring, logos)

TronMorph(colors, ring, logos) == TronBreathe(colors, ring, logos)

TronSpectrum(ring, logos) == TronBreathe(RAINBOW, ring, logos)

TronPulse(r, g, b, ring, logos) ==
    TronApply(TronPulseAction(r, g, b), ring, logos)

\* TronOff that does not pass its ring/logos arguments on
TronOff_AllZones(ring, logos) == TronStatic(0, 0, 0, TRUE, TRUE)

TronOff(ring, logos) == TronStatic(0, 0, 0, ring, logos)

\* ---------------------------------------------------------------------------
\* Command line and environment
\* ---------------------------------------------------------------------------

Commands == {"static", "breathe", "morph", "spectrum", "wave", "pulse", "off"}

\* first positional token of argv; "" stands for "no positional token"
CmdTokens == Commands \cup {"OFF", "bogus", "-h", ""}

TargetFlags == {"--keyboard", "--tron", "--ring", "--logos"}

\* colour tokens as lists of characters
ColorTokens ==
    { <<"F", "F", "1", "4", "9", "3">>,
      <<"#", "0", "0", "f", "f", "0", "0">> }

\* the token 000000
BLACK_TOKEN == <<"0", "0", "0", "0", "0", "0">>

ColorArgLists ==
    UNION {[1..n -> ColorTokens] : n \in 0..MaxColors} \cup {<<BLACK_TOKEN>>}

\* str.lower() on the command tokens of the model
Lower(tok) == IF tok = "OFF" THEN "off" ELSE tok

Devices == {"kbd", "tron"}

VARIABLES
    argv_cmd,        \* sys.argv: first positional token
    color_args,      \* sys.argv: the tokens after the command
    flags,           \* sys.argv: the "--" tokens
    flag_first,      \* sys.argv[1] is one of the "--" tokens
    hidraw,          \* controllers that find_hidraw can find
    pc,              \* position in main()
    cmd,             \* args[0].lower()
    do_keyboard, do_ring_actual, do_logos_actual,
    kbd_dev, kbd_fd, \* Keyboard.dev, Keyboard.fd
    tron_dev, tron_fd,
    kbd_sent,        \* payloads Keyboard._send has delivered, in order
    tron_sent,       \* payloads Tron._send has delivered, in order
    trace,           \* session and rebind calls made so far, in order
    stderr,          \* lines written to standard error
    exc,             \* exception propagating out of main(), or "none"
    exit_code,       \* process exit status, -1 while running
    send_on_closed,  \* controllers whose _send ran with fd = None
    call             \* arguments of an encoder method called on its own

vars == <<argv_cmd, color_args, flags, flag_first, hidraw, pc, cmd, do_keyboard,
          do_ring_actual, do_logos_actual, kbd_dev, kbd_fd, tron_dev,
          tron_fd, kbd_sent, tron_sent, trace, stderr, exc, exit_code,
          send_on_closed, call>>

argvVars == <<argv_cmd, color_args, flags, flag_first, hidraw, call>>

Init ==
    /\ argv_cmd \in CmdTokens
    /\ color_args \in ColorArgLists
    /\ flags \in SUBSET TargetFlags
    /\ flag_first \in BOOLEAN
    /\ (flag_first => flags # {})
    /\ (argv_cmd = "" => color_args = <<>> /\ (flag_first <=> flags # {}))
    /\ hidraw \in SUBSET Devices
    /\ pc = "start"
    /\ cmd = ""
    /\ do_keyboard = FALSE
    /\ do_ring_actual = FALSE
    /\ do_logos_actual = FALSE
    /\ kbd_dev = "None"
    /\ kbd_fd = "None"
    /\ tron_dev = "None"
    /\ tron_fd = "None"
    /\ kbd_sent = <<>>
    /\ tron_sent = <<>>
    /\ trace = <<>>
    /\ stderr = <<>>
    /\ exc = "none"
    /\ exit_code = -1
    /\ send_on_closed = {}
    /\ call = <<>>

\* Targets with ring and logos selected whatever flags are given
Targets_TronAlways(fl) ==
    LET any == fl # {}
        do_kbd == IF any THEN "--keyboard" \in fl ELSE TRUE
    IN  [keyboard |-> do_kbd, ring |-> TRUE, logos |-> TRUE]

\* Targets with --tron selecting the logos only
Targets_TronLogosOnly(fl) ==
    LET any == fl # {}
        do_kbd == IF any THEN "--keyboard" \in fl ELSE TRUE
        do_tron == IF any THEN "--tron" \in fl ELSE TRUE
    IN  [keyboard |-> do_kbd,
         ring |-> ((~any) \/ "--ring" \in fl),
         logos |-> (do_tron \/ "--logos" \in fl)]

\* the target flags of main(): do_keyboard, do_ring_actual, do_logos_actual
Targets(fl) ==
    LET any == fl # {}
        do_kbd == IF any THEN "--keyboard" \in fl ELSE TRUE
        do_tron == IF any THEN "--tron" \in fl ELSE TRUE
    IN  [keyboard |-> do_kbd,
         ring |-> (do_tron \/ "--ring" \in fl),
         logos |-> (do_tron \/ "--logos" \in fl)]

\* find_hidraw(vid, pid) for the two controllers
find_hidraw(dev) ==
    IF dev \in hidraw
    THEN (IF dev = "kbd" THEN KBD_DEV ELSE TRON_DEV)
    ELSE "None"

\* the process ends: sys.exit(n), or an uncaught exception (status 1)
Terminate(e, code) ==
    /\ pc' = "done"
    /\ exc' = e
    /\ exit_code' = code

\* ---------------------------------------------------------------------------
\* main(): argument parsing and construction of the two sessions
\* ---------------------------------------------------------------------------

\* not args or args[0] in ("-h", "--help"): argv is empty, or its first
\* token is the help flag (a help flag after a "--" token is not looked at)
HelpRequested ==
    \/ argv_cmd = "" /\ flags = {}
    \/ argv_cmd = "-h" /\ ~flag_first

Start ==
    /\ pc = "start"
    /\ IF HelpRequested
       THEN \* print(__doc__); sys.exit(0)
            /\ Terminate("SystemExit", 0)
            /\ UNCHANGED <<cmd, do_keyboard, do_ring_actual, do_logos_actual,
                           kbd_dev, tron_dev, stderr>>
       ELSE IF argv_cmd = ""
       THEN \* only flags were given: args[0] raises IndexError
            /\ Terminate("IndexError", 1)
            /\ stderr' = Append(stderr, "Traceback")
            /\ UNCHANGED <<cmd, do_keyboard, do_ring_actual, do_logos_actual,
                           kbd_dev, tron_dev>>
       ELSE /\ do_keyboard' = Targets(flags).keyboard
            /\ do_ring_actual' = Targets(flags).ring
            /\ do_logos_actual' = Targets(flags).logos
            /\ cmd' = Lower(argv_cmd)
            /\ kbd_dev' = find_hidraw("kbd")
            /\ tron_dev' = find_hidraw("tron")
            /\ pc' = "open_kbd"
            /\ UNCHANGED <<exc, exit_code, stderr>>
    /\ UNCHANGED <<argvVars, kbd_fd, tron_fd, kbd_sent, tron_sent, trace,
                   send_on_closed>>

\* OpenKeyboard that keeps do_keyboard set when open() returns False
OpenKeyboard_KeepTarget ==
    /\ pc = "open_kbd"
    /\ IF ~do_keyboard
       THEN /\ pc' = "open_tron"
            /\ UNCHANGED <<kbd_fd, trace, stderr, exc, exit_code>>
       ELSE IF kbd_dev = "None"
       THEN /\ stderr' = Append(stderr, "Warning: keyboard not found")
            /\ trace' = Append(trace, <<"kbd.open", "False">>)
            /\ pc' = "open_tron"
            /\ UNCHANGED <<kbd_fd, exc, exit_code>>
       ELSE \/ /\ kbd_fd' = "open"
               /\ trace' = Append(trace, <<"kbd.open", "True">>)
               /\ pc' = "open_tron"
               /\ UNCHANGED <<stderr, exc, exit_code>>
            \/ /\ trace' = Append(trace, <<"kbd.open", "OSError">>)
               /\ stderr' = Append(stderr, "Traceback")
               /\ Terminate("OSError", 1)
               /\ UNCHANGED kbd_fd
    /\ UNCHANGED <<argvVars, cmd, do_keyboard, do_ring_actual,
                   do_logos_actual, kbd_dev, tron_dev, tron_fd, kbd_sent,
                   tron_sent, send_on_closed>>

\* if do_keyboard: if not kbd.open(): do_keyboard = False
OpenKeyboard ==
    /\ pc = "open_kbd"
    /\ IF ~do_keyboard
       THEN /\ pc' = "open_tron"
            /\ UNCHANGED <<do_keyboard, kbd_fd, trace, stderr, exc, exit_code>>
       ELSE IF kbd_dev = "None"
       THEN /\ stderr' = Append(stderr, "Warning: keyboard not found")
            /\ trace' = Append(trace, <<"kbd.open", "False">>)
            /\ do_keyboard' = FALSE
            /\ pc' = "open_tron"
            /\ UNCHANGED <<kbd_fd, exc, exit_code>>
       ELSE \/ /\ kbd_fd' = "open"
               /\ trace' = Append(trace, <<"kbd.open", "True">>)
               /\ pc' = "open_tron"
               /\ UNCHANGED <<do_keyboard, stderr, exc, exit_code>>
            \/ \* os.open raises; nothing catches it
               /\ trace' = Append(trace, <<"kbd.open", "OSError">>)
               /\ stderr' = Append(stderr, "Traceback")
               /\ Terminate("OSError", 1)
               /\ UNCHANGED <<do_keyboard, kbd_fd>>
    /\ UNCHANGED <<argvVars, cmd, do_ring_actual, do_logos_actual, kbd_dev,
                   tron_dev, tron_fd, kbd_sent, tron_sent, send_on_closed>>

\* OpenTron that gives up every target when the AW-ELC is not found
OpenTron_DropsKeyboard ==
    /\ pc = "open_tron"
    /\ IF ~(do_ring_actual \/ do_logos_actual)
       THEN /\ pc' = "try_kbd"
            /\ UNCHANGED <<do_keyboard, do_ring_actual, do_logos_actual,
                           tron_fd, trace, stderr, exc, exit_code>>
       ELSE IF tron_dev = "None"
       THEN /\ stderr' = Append(stderr, "Warning: AW-ELC not found")
            /\ trace' = Append(trace, <<"tron.open", "False">>)
            /\ do_keyboard' = FALSE
            /\ do_ring_actual' = FALSE
            /\ do_logos_actual' = FALSE
            /\ pc' = "try_kbd"
            /\ UNCHANGED <<tron_fd, exc, exit_code>>
       ELSE \/ /\ tron_fd' = "open"
               /\ trace' = Append(trace, <<"tron.open", "True">>)
               /\ pc' = "try_kbd"
               /\ UNCHANGED <<do_keyboard, do_ring_actual, do_logos_actual,
                              stderr, exc, exit_code>>
            \/ /\ trace' = Append(trace, <<"tron.open", "OSError">>)
               /\ stderr' = Append(stderr, "Traceback")
               /\ Terminate("OSError", 1)
               /\ UNCHANGED <<do_keyboard, do_ring_actual, do_logos_actual,
                              tron_fd>>
    /\ UNCHANGED <<argvVars, cmd, kbd_dev, kbd_fd, tron_dev, kbd_sent,
                   tron_sent, send_on_closed>>

\* if do_ring_actual or do_logos_actual: if not tron.open(): ... = False
OpenTron ==
    /\ pc = "open_tron"
    /\ IF ~(do_ring_actual \/ do_logos_actual)
       THEN /\ pc' = "try_kbd"
            /\ UNCHANGED <<do_ring_actual, do_logos_actual, tron_fd, trace,
                           stderr, exc, exit_code>>
       ELSE IF tron_dev = "None"
       THEN /\ stderr' = Append(stderr, "Warning: AW-ELC not found")
            /\ trace' = Append(trace, <<"tron.open", "False">>)
            /\ do_ring_actual' = FALSE
            /\ do_logos_actual' = FALSE
            /\ pc' = "try_kbd"
            /\ UNCHANGED <<tron_fd, exc, exit_code>>
       ELSE \/ /\ tron_fd' = "open"
               /\ trace' = Append(trace, <<"tron.open", "True">>)
               /\ pc' = "try_kbd"
               /\ UNCHANGED <<do_ring_actual, do_logos_actual, stderr, exc,
                              exit_code>>
            \/ /\ trace' = Append(trace, <<"tron.open", "OSError">>)
               /\ stderr' = Append(stderr, "Traceback")
               /\ Terminate("OSError", 1)
               /\ UNCHANGED <<do_ring_actual, do_logos_actual, tron_fd>>
    /\ UNCHANGED <<argvVars, cmd, do_keyboard, kbd_dev, kbd_fd, tron_dev,
                   kbd_sent, tron_sent, send_on_closed>>

\* ---------------------------------------------------------------------------
\* main(): the try block
\* ---------------------------------------------------------------------------

\* r, g, b = parse_color(color_args[0]) if color_args else (0xFF, 0x14, 0x93)
FirstColor(cargs) ==
    IF cargs # <<>> THEN parse_color(cargs[1]) ELSE DEFAULT_COLOR

\* colors = [parse_color(c) for c in color_args] if color_args else [...]
AllColors(cargs) == IF cargs # <<>> THEN ParseAll(cargs) ELSE RAINBOW

\* KbdCall whose pulse branch hands every parsed colour to the effect
KbdCall_PulseAllColors(c, cargs) ==
    CASE c = "static" ->
           LET rgb == FirstColor(cargs) IN KbdStatic(rgb[1], rgb[2], rgb[3])
      [] c = "breathe" -> KbdBreathe(AllColors(cargs))
      [] c = "morph" -> KbdMorph(AllColors(cargs))
      [] c = "spectrum" -> KbdSpectrum
      [] c = "wave" -> KbdWave
      [] c = "pulse" ->
           KbdReset \o KbdDisableEffect
               \o KbdGlobalEffect(8, 7, AllColors(cargs)) \o KbdCommit
      [] c = "off" -> KbdOff

\* payloads of the keyboard method that the branch for command c calls
KbdCall(c, cargs) ==
    CASE c = "static" ->
           LET rgb == FirstColor(cargs) IN KbdStatic(rgb[1], rgb[2], rgb[3])
      [] c = "breathe" -> KbdBreathe(AllColors(cargs))
      [] c = "morph" -> KbdMorph(AllColors(cargs))
      [] c = "spectrum" -> KbdSpectrum
      [] c = "wave" -> KbdWave
      [] c = "pulse" ->
           LET rgb == FirstColor(cargs) IN KbdPulse(rgb[1], rgb[2], rgb[3])
      [] c = "off" -> KbdOff

\* payloads of the tron method that the branch for command c calls
TronCall(c, cargs, ring, logos) ==
    CASE c = "static" ->
           LET rgb == FirstColor(cargs)
           IN  TronStatic(rgb[1], rgb[2], rgb[3], ring, logos)
      [] c = "breathe" -> TronBreathe(AllColors(cargs), ring, logos)
      [] c = "morph" -> TronMorph(AllColors(cargs), ring, logos)
      [] c = "spectrum" -> TronSpectrum(ring, logos)
      [] c = "wave" -> TronSpectrum(ring, logos)
      [] c = "pulse" ->
           LET rgb == FirstColor(cargs)
           IN  TronPulse(rgb[1], rgb[2], rgb[3], ring, logos)
      [] c = "off" -> TronOff(ring, logos)

\* the report buffers _send built from the delivered payloads (pkt / buf)
kbd_wire == [i \in 1..Len(kbd_sent) |-> KbdPkt(kbd_sent[i])]

tron_wire == [i \in 1..Len(tron_sent) |-> TronPkt(tron_sent[i])]

\* if do_keyboard: kbd.<cmd>(...)
\* Each _send may raise OSError from the ioctl; the sends before it are done.
RunKeyboard ==
    /\ pc = "try_kbd"
    /\ cmd \in Commands
    /\ IF ~do_keyboard
       THEN /\ pc' = "try_tron"
            /\ UNCHANGED <<kbd_sent, exc, trace, send_on_closed>>
       ELSE IF kbd_fd # "open"
       THEN \* ioctl(None, ...) raises TypeError
            /\ send_on_closed' = send_on_closed \cup {"kbd"}
            /\ exc' = "TypeError"
            /\ pc' = "finally"
            /\ trace' = Append(trace, <<"kbd._send", "TypeError">>)
            /\ UNCHANGED kbd_sent
       ELSE LET payloads == KbdCall(cmd, color_args)
            IN  \E n \in 0..Len(payloads) :
                   /\ kbd_sent' = kbd_sent \o Take(payloads, n)
                   /\ IF n = Len(payloads)
                      THEN /\ pc' = "try_tron"
                           /\ UNCHANGED <<exc, trace>>
                      ELSE /\ pc' = "finally"
                           /\ exc' = "OSError"
                           /\ trace' = Append(trace,
                                               <<"kbd._send", "OSError">>)
                   /\ UNCHANGED send_on_closed
    /\ UNCHANGED <<argvVars, cmd, do_keyboard, do_ring_actual, do_logos_actual,
                   kbd_dev, kbd_fd, tron_dev, tron_fd, tron_sent, stderr,
                   exit_code>>

\* if do_ring_actual or do_logos_actual: tron.<cmd>(..., ring=, logos=)
RunTron ==
    /\ pc = "try_tron"
    /\ IF ~(do_ring_actual \/ do_logos_actual)
       THEN /\ pc' = "finally"
            /\ UNCHANGED <<tron_sent, exc, trace, send_on_closed>>
       ELSE IF tron_fd # "open"
       THEN \* os.write(None, ...) raises TypeError
            /\ send_on_closed' = send_on_closed \cup {"tron"}
            /\ exc' = "TypeError"
            /\ pc' = "finally"
            /\ trace' = Append(trace, <<"tron._send", "TypeError">>)
            /\ UNCHANGED tron_sent
       ELSE LET payloads ==
                    TronCall(cmd, color_args, do_ring_actual, do_logos_actual)
            IN  \E n \in 0..Len(payloads) :
                   /\ tron_sent' = tron_sent \o Take(payloads, n)
                   /\ pc' = "finally"
                   /\ IF n = Len(payloads)
                      THEN UNCHANGED <<exc, trace>>
                      ELSE /\ exc' = "OSError"
                           /\ trace' = Append(trace,
                                               <<"tron._send", "OSError">>)
                   /\ UNCHANGED send_on_closed
    /\ UNCHANGED <<argvVars, cmd, do_keyboard, do_ring_actual, do_logos_actual,
                   kbd_dev, kbd_fd, tron_dev, tron_fd, kbd_sent, stderr,
                   exit_code>>

\* else: print("Unknown command: ..."); sys.exit(1)
\* UnknownCommand leaving the process at once, without the finally block
UnknownCommand_ExitsAtOnce ==
    /\ pc = "try_kbd"
    /\ cmd \notin Commands
    /\ stderr' = Append(stderr, "Unknown command")
    /\ Terminate("SystemExit", 1)
    /\ UNCHANGED <<argvVars, cmd, do_keyboard, do_ring_actual, do_logos_actual,
                   kbd_dev, kbd_fd, tron_dev, tron_fd, kbd_sent, tron_sent,
                   trace, send_on_closed>>

UnknownCommand ==
    /\ pc = "try_kbd"
    /\ cmd \notin Commands
    /\ stderr' = Append(stderr, "Unknown command")
    /\ exc' = "SystemExit"
    /\ pc' = "finally"
    /\ UNCHANGED <<argvVars, cmd, do_keyboard, do_ring_actual, do_logos_actual,
                   kbd_dev, kbd_fd, tron_dev, tron_fd, kbd_sent, tron_sent,
                   trace, exit_code, send_on_closed>>

\* ---------------------------------------------------------------------------
\* Keyboard._rebind
\* ---------------------------------------------------------------------------

SysWrite(file, by) == <<"write", file, HID_PHYS, by>>

\* a helper whose shell command writes the bind file only
HelperOutcomes_BindOnly ==
    { [events |-> << <<"pkexec", "ran">>, SysWrite("bind", "pkexec") >>,
       raised |-> "none"],
      [events |-> << <<"pkexec", "refused">> >>, raised |-> "none"],
      [events |-> << <<"pkexec", "FileNotFoundError">> >>,
       raised |-> "FileNotFoundError"] }

\* subprocess.run(["pkexec", "bash", "-c", ...], check=False): the shell
\* command issues the unbind write, sleeps, issues the bind write
HelperOutcomes ==
    { [events |-> << <<"pkexec", "ran">>, SysWrite("unbind", "pkexec"),
                     <<"sleep">>, SysWrite("bind", "pkexec") >>,
       raised |-> "none"],
      \* authorisation refused: non-zero status, ignored (check=False)
      [events |-> << <<"pkexec", "refused">> >>, raised |-> "none"],
      \* pkexec is not installed: subprocess.run raises
      [events |-> << <<"pkexec", "FileNotFoundError">> >>,
       raised |-> "FileNotFoundError"] }

AfterEvents(prefix, outcomes) ==
    { [events |-> prefix \o o.events, raised |-> o.raised] : o \in outcomes }

\* the ways one call of _rebind can go, as (events, exception raised)
RebindOutcomes(dev) ==
    IF dev = "None"
    THEN { [events |-> <<>>, raised |-> "none"] }
    ELSE LET read == << <<"uevent", "read">> >>
             unbound == read \o <<SysWrite("unbind", "direct"), <<"sleep">>>>
         IN  \* the uevent file is missing: FileNotFoundError, caught
             { [events |-> << <<"uevent", "missing">> >>, raised |-> "none"],
               \* no HID_PHYS line, or an empty value
               [events |-> << <<"uevent", "no phys">> >>, raised |-> "none"],
               \* both direct writes succeed
               [events |-> unbound \o <<SysWrite("bind", "direct")>>,
                raised |-> "none"],
               \* a direct write fails with an OSError other than
               \* PermissionError: not caught
               [events |-> read \o << <<"write", "unbind", "OSError">> >>,
                raised |-> "OSError"],
               [events |-> unbound \o << <<"write", "bind", "OSError">> >>,
                raised |-> "OSError"] }
             \* PermissionError on the unbind file, or on the bind file
             \cup AfterEvents(read, HelperOutcomes)
             \cup AfterEvents(unbound, HelperOutcomes)

\* ---------------------------------------------------------------------------
\* main(): the finally block
\* ---------------------------------------------------------------------------

\* FinallyKeyboard that calls kbd.close() whether or not do_keyboard is set
FinallyKeyboard_Unconditional ==
    /\ pc = "finally"
    /\ \E o \in RebindOutcomes(kbd_dev) :
          /\ kbd_fd' = "None"
          /\ trace' = trace
                \o (IF kbd_fd # "None" THEN << <<"kbd.os.close">> >>
                    ELSE <<>>)
                \o << <<"kbd._rebind">> >> \o o.events
          /\ IF o.raised = "none"
             THEN /\ pc' = "finally_tron"
                  /\ UNCHANGED <<stderr, exc, exit_code>>
             ELSE /\ stderr' = Append(stderr, "Traceback")
                  /\ Terminate(o.raised, 1)
    /\ UNCHANGED <<argvVars, cmd, do_keyboard, do_ring_actual, do_logos_actual,
                   kbd_dev, tron_dev, tron_fd, kbd_sent, tron_sent,
                   send_on_closed>>

\* if do_keyboard: kbd.close()
FinallyKeyboard ==
    /\ pc = "finally"
    /\ IF ~do_keyboard
       THEN /\ pc' = "finally_tron"
            /\ UNCHANGED <<kbd_fd, trace, stderr, exc, exit_code>>
       ELSE \E o \in RebindOutcomes(kbd_dev) :
              /\ kbd_fd' = "None"
              /\ trace' = trace
                    \o (IF kbd_fd # "None" THEN << <<"kbd.os.close">> >>
                        ELSE <<>>)
                    \o << <<"kbd._rebind">> >> \o o.events
              /\ IF o.raised = "none"
                 THEN /\ pc' = "finally_tron"
                      /\ UNCHANGED <<stderr, exc, exit_code>>
                 ELSE \* the exception leaves the finally block
                      /\ stderr' = Append(stderr, "Traceback")
                      /\ Terminate(o.raised, 1)
    /\ UNCHANGED <<argvVars, cmd, do_keyboard, do_ring_actual, do_logos_actual,
                   kbd_dev, tron_dev, tron_fd, kbd_sent, tron_sent,
                   send_on_closed>>

\* tron.close(), then the pending exception (if any) ends the process
FinallyTron ==
    /\ pc = "finally_tron"
    /\ tron_fd' = "None"
    /\ trace' = trace
          \o (IF tron_fd # "None" THEN << <<"tron.os.close">> >> ELSE <<>>)
    /\ pc' = "done"
    /\ exit_code' = IF exc = "none" THEN 0 ELSE 1
    /\ stderr' = IF exc \in {"none", "SystemExit"} THEN stderr
                 ELSE Append(stderr, "Traceback")
    /\ UNCHANGED <<argvVars, cmd, do_keyboard, do_ring_actual, do_logos_actual,
                   kbd_dev, kbd_fd, tron_dev, kbd_sent, tron_sent, exc,
                   send_on_closed>>

Next ==
    \/ Start
    \/ OpenKeyboard
    \/ OpenTron
    \/ RunKeyboard
    \/ RunTron
    \/ UnknownCommand
    \/ FinallyKeyboard
    \/ FinallyTron

Spec == Init /\ [][Next]_vars

\* ---------------------------------------------------------------------------
\* The Tron programming methods called on their own, on an open session
\* ---------------------------------------------------------------------------

SampleColors == {parse_color(t) : t \in ColorTokens} \cup {<<0, 0, 0>>}

SampleColorLists == UNION {[1..n -> SampleColors] : n \in 1..MaxColors}

\* action byte lists: the three builders, and the empty list
ActionSamples ==
    {TronStaticAction(c[1], c[2], c[3]) : c \in SampleColors}
        \cup {TronPulseAction(c[1], c[2], c[3]) : c \in SampleColors}
        \cup {TronMorphActions(cs) : cs \in SampleColorLists}
        \cup {<<>>}

ZoneIds == {0, 1, 10}

ZoneLists == UNION {[1..n -> ZoneIds] : n \in 0..MaxZones}

\* tron = Tron(); tron.open() with the controller present
InitEnc ==
    /\ argv_cmd = ""
    /\ color_args = <<>>
    /\ flags = {}
    /\ flag_first = FALSE
    /\ hidraw = Devices
    /\ pc = "encoder"
    /\ cmd = ""
    /\ do_keyboard = FALSE
    /\ do_ring_actual = FALSE
    /\ do_logos_actual = FALSE
    /\ kbd_dev = KBD_DEV
    /\ kbd_fd = "None"
    /\ tron_dev = TRON_DEV
    /\ tron_fd = "open"
    /\ kbd_sent = <<>>
    /\ tron_sent = <<>>
    /\ trace = << <<"tron.open", "True">> >>
    /\ stderr = <<>>
    /\ exc = "none"
    /\ exit_code = -1
    /\ send_on_closed = {}
    /\ call = <<>>

\* tron._set_logos(actions, zones)
CallSetLogos ==
    /\ pc = "encoder"
    /\ \E actions \in ActionSamples, zones \in ZoneLists :
          /\ call' = <<"_set_logos", actions, zones>>
          /\ tron_sent' = tron_sent \o TronSetLogos(actions, zones)
    /\ pc' = "returned"
    /\ UNCHANGED <<argv_cmd, color_args, flags, flag_first, hidraw, cmd,
                   do_keyboard, do_ring_actual, do_logos_actual, kbd_dev,
                   kbd_fd, tron_dev, tron_fd, kbd_sent, trace, stderr, exc,
                   exit_code, send_on_closed>>

\* tron._set_ring(actions, zones)
CallSetRing ==
    /\ pc = "encoder"
    /\ \E actions \in ActionSamples, zones \in ZoneLists :
          /\ call' = <<"_set_ring", actions, zones>>
          /\ tron_sent' = tron_sent \o TronSetRing(actions, zones)
    /\ pc' = "returned"
    /\ UNCHANGED <<argv_cmd, color_args, flags, flag_first, hidraw, cmd,
                   do_keyboard, do_ring_actual, do_logos_actual, kbd_dev,
                   kbd_fd, tron_dev, tron_fd, kbd_sent, trace, stderr, exc,
                   exit_code, send_on_closed>>

NextEnc == CallSetLogos \/ CallSetRing

SpecEnc == InitEnc /\ [][NextEnc]_vars

\* ---------------------------------------------------------------------------
\* Runs of main() with long colour lists: breathe and morph with up to
\* MaxLongColors tokens, default targets, both controllers present
\* ---------------------------------------------------------------------------

PALETTE ==
    << <<"F", "F", "1", "4", "9", "3">>,
       <<"#", "0", "0", "f", "f", "0", "0">>,
       BLACK_TOKEN >>

\* n tokens taken round the palette, starting at its entry s
CycleTokens(s, n) == [i \in 1..n |-> PALETTE[((s + i - 2) % Len(PALETTE)) + 1]]

LongColorArgLists ==
    {CycleTokens(s, n) : s \in 1..Len(PALETTE), n \in 1..MaxLongColors}

InitLong ==
    /\ argv_cmd \in {"breathe", "morph", "bogus"}
    /\ color_args \in LongColorArgLists
    /\ flags = {}
    /\ flag_first = FALSE
    /\ hidraw = Devices
    /\ pc = "start"
    /\ cmd = ""
    /\ do_keyboard = FALSE
    /\ do_ring_actual = FALSE
    /\ do_logos_actual = FALSE
    /\ kbd_dev = "None"
    /\ kbd_fd = "None"
    /\ tron_dev = "None"
    /\ tron_fd = "None"
    /\ kbd_sent = <<>>
    /\ tron_sent = <<>>
    /\ trace = <<>>
    /\ stderr = <<>>
    /\ exc = "none"
    /\ exit_code = -1
    /\ send_on_closed = {}
    /\ call = <<>>

SpecLong == InitLong /\ [][Next]_vars

TypeOK ==
    /\ pc \in {"start", "open_kbd", "open_tron", "try_kbd", "try_tron",
               "finally", "finally_tron", "done", "encoder", "returned"}
    /\ exit_code \in {-1, 0, 1}
    /\ kbd_fd \in {"None", "open"}
    /\ tron_fd \in {"None", "open"}
    /\ (pc = "done") = (exit_code # -1)

\* ---------------------------------------------------------------------------
\* Properties
\* ---------------------------------------------------------------------------

\* the keyboard method called by the command has just returned
KbdReturned == pc = "try_tron" /\ do_keyboard

\* the tron method called by the command has just returned
TronReturned ==
    /\ pc = "finally"
    /\ exc = "none"
    /\ (do_ring_actual \/ do_logos_actual)

PktReset == <<\h94>>
PktDisable == <<\h80, \h01, \hFE, \h00, \h00, \h01, \h01, \h01>>
PktCommit == <<\h8B, \h01, \hFF>>
PktCommitKeys == <<\h8C, \h13>>

\* C1: for every keyboard effect method and colour input, the packets sent
\* to the keyboard start with reset, then disable-effect, before anything
\* else; commit is sent only as the last packet, and once the method has
\* returned the last packet sent is the commit.
C1_KbdEnvelope ==
    /\ Len(kbd_sent) >= 1 => kbd_sent[1] = PktReset
    /\ Len(kbd_sent) >= 2 => kbd_sent[2] = PktDisable
    /\ \A i \in 1..Len(kbd_sent) :
          /\ kbd_sent[i] = PktReset => i = 1
          /\ kbd_sent[i] = PktDisable => i = 2
          /\ kbd_sent[i] = PktCommit => i > 2 /\ i = Len(kbd_sent)
    /\ KbdReturned =>
          /\ Len(kbd_sent) >= 3
          /\ kbd_sent[Len(kbd_sent)] = PktCommit
          /\ Cardinality({i \in 1..Len(kbd_sent) : kbd_sent[i] = PktCommit})
                = 1

C1_Witness ==
    /\ KbdReturned
    /\ cmd = "pulse"
    /\ color_args # <<>>
    /\ Len(kbd_sent) = 4

\* number of keys of the i-th chunk when N keys go out in chunks of 15
ChunkSizeOf(N, j) == IF N - 15 * (j - 1) < 15 THEN N - 15 * (j - 1) ELSE 15

\* C2: static keyboard encoding of the 0x88 keys sends ceil(0x88/15) chunk
\* commands of length 3 + 4*chunkSize (chunkSize <= 15), then one
\* commit-keys command, then one final commit.
C2_StaticChunks ==
    (KbdReturned /\ cmd \in {"static", "off"}) =>
        LET N == \h88
            n == (N + 14) \div 15
            IsChunk(p) == Len(p) >= 3 /\ SubSeq(p, 1, 3) = <<\h8C, \h02, \h00>>
        IN  /\ Len(kbd_sent) = 2 + n + 2
            /\ \A j \in 1..n :
                  /\ IsChunk(kbd_sent[2 + j])
                  /\ Len(kbd_sent[2 + j]) = 3 + 4 * ChunkSizeOf(N, j)
                  /\ ChunkSizeOf(N, j) \in 1..15
            /\ Cardinality({i \in 1..Len(kbd_sent) : IsChunk(kbd_sent[i])}) = n
            /\ kbd_sent[2 + n + 1] = PktCommitKeys
            /\ Cardinality({i \in 1..Len(kbd_sent) :
                               kbd_sent[i] = PktCommitKeys}) = 1
            /\ kbd_sent[2 + n + 2] = PktCommit
            /\ Cardinality({i \in 1..Len(kbd_sent) : kbd_sent[i] = PktCommit})
                  = 1

C2_Witness ==
    /\ KbdReturned
    /\ cmd = "static"
    /\ color_args # <<>>
    /\ Len(kbd_sent) = 14
    /\ Len(kbd_sent[12]) = 7

\* the packets of the latest completed run of _set_logos: the whole log
\* when it was called on its own, the part after the ring's five packets
\* when the tron method of a command called it
LogoRunDone ==
    \/ pc = "returned" /\ call[1] = "_set_logos"
    \/ TronReturned /\ do_logos_actual

LogoRun ==
    IF pc # "returned" /\ do_ring_actual
    THEN SubSeq(tron_sent, 6, Len(tron_sent))
    ELSE tron_sent

PktLogoPlay == <<\h21, \h00, \h05, \h00, \hFF>>

\* C3: every run of _set_logos, for any zone list and action bytes, emits
\* exactly 6 remove/start/select/action/save groups, one per power state
\* 0x5B..0x60, then exactly one final play command as the last packet.
C3_LogoGroups ==
    LogoRunDone =>
        LET run == LogoRun
            IsGroup(g, st) ==
                /\ run[g] = <<\h22, \h00, \h04, \h00, st>>
                /\ run[g + 1] = <<\h22, \h00, \h01, \h00, st>>
                /\ run[g + 2][1] = \h23
                /\ run[g + 3][1] = \h24
                /\ run[g + 4] = <<\h22, \h00, \h02, \h00, st>>
        IN  /\ Len(run) = 1 + 6 * 5 + 1
            /\ \A k \in 0..5 : IsGroup(2 + 5 * k, \h5B + k)
            /\ \A st \in 0..255 :
                  Cardinality({i \in 1..Len(run) :
                                  run[i] = <<\h22, \h00, \h02, \h00, st>>})
                      = IF st \in \h5B..\h60 THEN 1 ELSE 0
            /\ run[Len(run)] = PktLogoPlay
            /\ Cardinality({i \in 1..Len(run) : run[i] = PktLogoPlay}) = 1

C3_Witness ==
    /\ pc = "returned"
    /\ call[1] = "_set_logos"
    /\ Len(call[2]) = 16
    /\ call[3] = <<10>>
    /\ Len(tron_sent) = 32

\* ---------------------------------------------------------------------------
\* Runs of main(): what was called, what failed
\* ---------------------------------------------------------------------------

InTrace(e) == \E i \in 1..Len(trace) : trace[i] = e

Called(name) == \E i \in 1..Len(trace) : trace[i][1] = name

\* Keyboard.close ran its _rebind step
RebindAttempted == InTrace(<<"kbd._rebind">>)

\* os.open raised in one of the two open() calls
OpenRaised ==
    InTrace(<<"kbd.open", "OSError">>) \/ InTrace(<<"tron.open", "OSError">>)

\* some device or rebind call raised an error that main() does not catch
DeviceIOFailed ==
    \E i \in 1..Len(trace) :
        trace[i][Len(trace[i])] \in {"OSError", "FileNotFoundError", "TypeError"}

\* argv named a command (recognised or not) and did not ask for help
CommandGiven == argv_cmd # "" /\ ~HelpRequested

\* the keyboard is a target: --keyboard, or no target flag at all
KbdFlagged == flags = {} \/ "--keyboard" \in flags
RingFlagged == flags = {} \/ "--tron" \in flags \/ "--ring" \in flags
LogosFlagged == flags = {} \/ "--tron" \in flags \/ "--logos" \in flags

\* C4 (as stated): whenever a run reaches the end of its finally block,
\* whatever the command and the targets, Keyboard.close has been executed
\* and has attempted the driver rebind.
C4_CloseAlwaysRebinds ==
    (pc = "finally_tron" /\ CommandGiven) => RebindAttempted

\* C4 (amended): the keyboard close is executed at exit and attempts the
\* rebind exactly in the runs that enter the try block with the keyboard
\* targeted and found, whether or not anything was sent to the keyboard;
\* in all other runs Keyboard.close is not called and nothing is rebound.
C4_RebindIffKeyboardActive ==
    /\ RebindAttempted <=>
          /\ pc \in {"finally_tron", "done"}
          /\ CommandGiven
          /\ ~OpenRaised
          /\ KbdFlagged
          /\ "kbd" \in hidraw
    /\ RebindAttempted => InTrace(<<"kbd.os.close">>) /\ kbd_fd = "None"
    /\ Called("write") \/ Called("pkexec") \/ Called("uevent")
          => RebindAttempted

C4_Witness ==
    /\ pc = "done"
    /\ cmd = "bogus"
    /\ RebindAttempted
    /\ InTrace(SysWrite("bind", "direct"))
    /\ kbd_sent = <<>>

\* C5: in every terminal state of a run, no device handle is left open.
C5_NoHandleLeftOpen ==
    pc = "done" => (kbd_fd = "None" /\ tron_fd = "None")

\* C6: a run that names a command fails (non-zero exit) only when the
\* command is unrecognised; every recognised command exits 0 whatever the
\* devices do.
C6_OnlyUnknownCommandFails ==
    (pc = "done" /\ CommandGiven) => (exit_code # 0 <=> cmd \notin Commands)

\* C7: degraded mode.  A recognised command with default targets, with
\* exactly one controller not found, never sends a packet to the absent
\* controller; and when the run ends without a device call having raised,
\* the other controller has received its complete sequence, the warning
\* for the absent one was printed, and the exit status is 0.
C7_DegradedMode ==
    /\ (flags = {} /\ "kbd" \notin hidraw) =>
          kbd_sent = <<>> /\ kbd_fd = "None"
    /\ (flags = {} /\ "tron" \notin hidraw) =>
          tron_sent = <<>> /\ tron_fd = "None"
    /\ (/\ pc = "done"
        /\ cmd \in Commands
        /\ flags = {}
        /\ Cardinality(hidraw) = 1
        /\ ~DeviceIOFailed) =>
          /\ exit_code = 0
          /\ Len(stderr) = 1
          /\ hidraw = {"kbd"} =>
                /\ kbd_sent = KbdCall(cmd, color_args)
                /\ Len(kbd_sent) >= 4
                /\ kbd_sent[Len(kbd_sent)] = PktCommit
                /\ stderr[1] = "Warning: AW-ELC not found"
          /\ hidraw = {"tron"} =>
                /\ tron_sent = TronCall(cmd, color_args, TRUE, TRUE)
                /\ Len(tron_sent) = 5 + 32
                /\ tron_sent[Len(tron_sent)] = PktLogoPlay
                /\ stderr[1] = "Warning: keyboard not found"

C7_Witness ==
    /\ pc = "done"
    /\ cmd = "spectrum"
    /\ flags = {}
    /\ hidraw = {"kbd"}
    /\ exit_code = 0
    /\ Len(kbd_sent) = 4
    /\ stderr = <<"Warning: AW-ELC not found">>

\* C8: every step that delivers a packet to a controller is taken with that
\* controller's handle open, and _send is never entered with fd = None.
C8_SendOnlyOnOpenHandle ==
    [][/\ kbd_sent' # kbd_sent => (kbd_fd = "open" /\ kbd_fd' = "open")
       /\ tron_sent' # tron_sent => (tron_fd = "open" /\ tron_fd' = "open")
       /\ send_on_closed' = {}]_vars

C8_Witness ==
    /\ pc = "done"
    /\ flags = {}
    /\ InTrace(<<"kbd.open", "False">>)
    /\ kbd_sent = <<>>
    /\ Len(tron_sent) = 37
    /\ InTrace(<<"tron.os.close">>)

\* C9: with --keyboard as the only flag the tron session is never opened
\* and gets no packet, and the keyboard (when found and when no device call
\* raises) has its full sequence at exit; with only tron/ring/logos flags
\* the keyboard session is never opened, gets no packet and is not rebound.
C9_SingleTargetFrame ==
    /\ flags = {"--keyboard"} =>
          /\ tron_sent = <<>>
          /\ tron_fd = "None"
          /\ ~Called("tron.open")
          /\ ~Called("tron.os.close")
          /\ (/\ pc = "done"
              /\ cmd \in Commands
              /\ "kbd" \in hidraw
              /\ ~DeviceIOFailed) =>
                /\ kbd_sent = KbdCall(cmd, color_args)
                /\ Len(kbd_sent) >= 4
                /\ kbd_sent[1] = PktReset
                /\ kbd_sent[Len(kbd_sent)] = PktCommit
    /\ (flags # {} /\ "--keyboard" \notin flags) =>
          /\ kbd_sent = <<>>
          /\ kbd_fd = "None"
          /\ ~Called("kbd.open")
          /\ ~Called("kbd.os.close")
          /\ ~RebindAttempted

C9_Witness ==
    /\ pc = "done"
    /\ exit_code = 0
    /\ flags = {"--keyboard"}
    /\ hidraw = Devices
    /\ cmd = "static"
    /\ color_args = << <<"F", "F", "1", "4", "9", "3">> >>
    /\ Len(kbd_sent) = 14
    /\ SubSeq(kbd_sent[3], 4, 7) = <<1, 255, 20, 147>>
    /\ tron_sent = <<>>

PktRingClear == <<\h21, \h00, \h04, \h00, \hFF>>
PktRingPlay == <<\h21, \h00, \h03, \h00, \hFF>>
PktSelectRing ==
    <<\h23, \h01, \h00, 10, 10, 11, 12, 13, 14, 15, 16, 17, 18, 19>>
PktSelectLogos == <<\h23, \h01, \h00, 2, 0, 1>>

\* the ring has been put through clear, start, select, action, play
RingProgrammed ==
    \E i \in 1..Len(tron_sent) :
        /\ tron_sent[i] = PktRingClear
        /\ i + 4 <= Len(tron_sent)
        /\ tron_sent[i + 2] = PktSelectRing
        /\ tron_sent[i + 4] = PktRingPlay

\* some packet of a ring programming run was sent
RingTouched ==
    \E i \in 1..Len(tron_sent) : tron_sent[i] \in {PktRingClear, PktSelectRing}

\* the logos have been programmed up to the final play
LogosProgrammed ==
    /\ \E i \in 1..Len(tron_sent) : tron_sent[i] = PktLogoPlay
    /\ Cardinality({i \in 1..Len(tron_sent) : tron_sent[i] = PktSelectLogos})
          = 6

\* some packet of a logo programming run was sent
LogosTouched ==
    \E i \in 1..Len(tron_sent) :
        tron_sent[i] = PktSelectLogos \/ tron_sent[i][1] = \h22

KbdProgrammed ==
    kbd_sent # <<>> /\ kbd_sent[Len(kbd_sent)] = PktCommit

\* C10: with both controllers present, a recognised command that ends
\* without a device call having raised has programmed the keyboard iff
\* --keyboard or no flag was given, the ring iff --tron, --ring or no flag,
\* the logos iff --tron, --logos or no flag; a target that was not selected
\* never gets a packet.
C10_TargetResolution ==
    /\ kbd_sent # <<>> => KbdFlagged
    /\ RingTouched => RingFlagged
    /\ LogosTouched => LogosFlagged
    /\ (/\ pc = "done"
        /\ cmd \in Commands
        /\ hidraw = Devices
        /\ ~DeviceIOFailed) =>
          /\ KbdProgrammed <=> KbdFlagged
          /\ RingProgrammed <=> RingFlagged
          /\ LogosProgrammed <=> LogosFlagged

C10_Witness ==
    /\ pc = "done"
    /\ exit_code = 0
    /\ hidraw = Devices
    /\ flags = {"--keyboard", "--ring"}
    /\ KbdProgrammed
    /\ RingProgrammed
    /\ ~LogosTouched
    /\ Len(tron_sent) = 5

IsPrefix(p, q) == Len(p) <= Len(q) /\ p = SubSeq(q, 1, Len(p))

\* the keyboard / the AW-ELC takes part in the run: targeted and found
KbdActive == KbdFlagged /\ "kbd" \in hidraw
TronActive == (RingFlagged \/ LogosFlagged) /\ "tron" \in hidraw

\* the run is over and no device call raised
CleanExit == pc = "done" /\ ~DeviceIOFailed

\* C11: off is static with colour (0,0,0) on both controllers.  In a run of
\* off (whatever colour tokens follow it) each controller's packets are a
\* prefix of, and at a clean exit equal to, what static 000000 sends under
\* the same flags; and a run of static 000000 ends with what off sends.
C11_OffIsStaticBlack ==
    LET ring == RingFlagged
        logos == LogosFlagged
        kStatic == KbdCall("static", <<BLACK_TOKEN>>)
        tStatic == TronCall("static", <<BLACK_TOKEN>>, ring, logos)
    IN  /\ cmd = "off" =>
              /\ IsPrefix(kbd_sent, kStatic)
              /\ IsPrefix(tron_sent, tStatic)
              /\ (CleanExit /\ KbdActive) => kbd_sent = kStatic
              /\ (CleanExit /\ TronActive) => tron_sent = tStatic
        /\ (cmd = "static" /\ color_args = <<BLACK_TOKEN>> /\ CleanExit) =>
              /\ KbdActive => kbd_sent = KbdCall("off", <<>>)
              /\ TronActive => tron_sent = TronCall("off", <<>>, ring, logos)
              /\ KbdActive => SubSeq(kbd_sent[3], 4, 7) = <<1, 0, 0, 0>>
              /\ TronActive =>
                    \E i \in 1..Len(tron_sent) :
                        tron_sent[i]
                            = <<\h24, \h00, \h07, \hD0, \h00, \hFA, 0, 0, 0>>

C11_Witness ==
    /\ CleanExit
    /\ cmd = "off"
    /\ color_args # <<>>
    /\ flags = {"--keyboard", "--ring"}
    /\ hidraw = Devices
    /\ Len(kbd_sent) = 14
    /\ SubSeq(kbd_sent[3], 4, 7) = <<1, 0, 0, 0>>
    /\ Len(tron_sent) = 5
    /\ tron_sent[4] = <<\h24, \h00, \h07, \hD0, \h00, \hFA, 0, 0, 0>>

\* the colour a token of the model stands for, read off by hand
TokenRGB(tok) ==
    CASE tok = <<"F", "F", "1", "4", "9", "3">> -> <<255, 20, 147>>
      [] tok = <<"#", "0", "0", "f", "f", "0", "0">> -> <<0, 255, 0>>
      [] tok = <<"0", "0", "0", "0", "0", "0">> -> <<0, 0, 0>>

\* the colour static and pulse use: the first token, else magenta FF1493
FirstRGB == IF color_args = <<>> THEN <<255, 20, 147>>
            ELSE TokenRGB(color_args[1])

\* the packets [0x24, ...] that carry the action bytes
ActionPkts == {i \in 1..Len(tron_sent) : tron_sent[i][1] = \h24}

\* C12: pulse never carries more than one colour.  However many colour
\* tokens are given, the keyboard global-effect packet is the 8-byte header
\* of effect 0x08, the count byte 0 and one RGB triple, and every action
\* packet sent to the AW-ELC holds exactly one 8-byte pulse block.
C12_PulseSingleColor ==
    cmd = "pulse" =>
        LET rgb == FirstRGB
        IN  /\ Len(kbd_sent) >= 3 =>
                 kbd_sent[3] = <<\h80, \h08, \h07, \h00, \h00, \h01, \h01, \h01,
                                 0>> \o rgb
            /\ KbdReturned => Len(kbd_sent) = 4 /\ Len(kbd_sent[3]) = 12
            /\ \A i \in ActionPkts :
                  tron_sent[i] = <<\h24, \h01, \h07, \hDC, \h00, \h64>> \o rgb
            /\ (TronReturned /\ do_ring_actual /\ do_logos_actual) =>
                  Cardinality(ActionPkts) = 7

C12_Witness ==
    /\ cmd = "pulse"
    /\ Len(color_args) = 2
    /\ color_args[1] # color_args[2]
    /\ TronReturned
    /\ Len(kbd_sent) = 4
    /\ Len(kbd_sent[3]) = 12
    /\ Cardinality(ActionPkts) = 7

\* the RGB bytes of all colour tokens of the command line, in order
AllRGBBytes ==
    [i \in 1..(3 * Len(color_args)) |->
        TokenRGB(color_args[((i - 1) \div 3) + 1])[((i - 1) % 3) + 1]]

\* one morph block per colour token, for the first n tokens
MorphBlockBytes(n) ==
    [i \in 1..(8 * n) |->
        LET j == ((i - 1) \div 8) + 1
            o == ((i - 1) % 8) + 1
        IN  IF o <= 5 THEN <<\h02, \h07, \hCF, \h00, \h64>>[o]
            ELSE TokenRGB(color_args[j])[o - 5]]

\* C13: breathe and morph with k >= 1 colour tokens.  The keyboard
\* global-effect packet is the header (effect 0x02, tempo 0x07 for breathe,
\* 0x05 for morph), the count byte k-1 and all k RGB triples in order; every
\* action packet for the AW-ELC holds min(k,3) morph blocks built from the
\* first min(k,3) colours in order.
C13_BreatheMorphColors ==
    (cmd \in {"breathe", "morph"} /\ color_args # <<>>) =>
        LET k == Len(color_args)
            m == IF k < 3 THEN k ELSE 3
            tempo == IF cmd = "breathe" THEN \h07 ELSE \h05
        IN  /\ Len(kbd_sent) >= 3 =>
                 /\ kbd_sent[3]
                       = <<\h80, \h02, tempo, \h00, \h00, \h01, \h01, \h01,
                           k - 1>> \o AllRGBBytes
                 /\ Len(kbd_sent[3]) = 9 + 3 * k
            /\ KbdReturned => Len(kbd_sent) = 4
            /\ \A i \in ActionPkts :
                  /\ tron_sent[i] = <<\h24>> \o MorphBlockBytes(m)
                  /\ Len(tron_sent[i]) = 1 + 8 * m
            /\ (TronReturned /\ do_ring_actual /\ do_logos_actual) =>
                  Cardinality(ActionPkts) = 7

C13_Witness ==
    /\ cmd = "breathe"
    /\ Len(color_args) = 4
    /\ TronReturned
    /\ Len(kbd_sent) = 4
    /\ kbd_sent[3][9] = 3
    /\ Len(kbd_sent[3]) = 21
    /\ Len(tron_sent) = 37
    /\ Len(tron_sent[4]) = 25

\* frame f is the report of payload p: id byte, the payload, zero padding
IsReport(f, p, id, size) ==
    /\ Len(p) <= size - 1
    /\ Len(f) = size
    /\ f[1] = id
    /\ \A j \in 2..size : f[j] = IF j - 1 <= Len(p) THEN p[j - 1] ELSE 0

\* C14: every report built for the keyboard is 64 bytes: 0xCC, a payload of
\* at most 63 bytes, zero padding; every report built for the AW-ELC is 33
\* bytes: 0x03, a payload of at most 32 bytes, zero padding.
C14_FrameSizes ==
    /\ \A i \in 1..Len(kbd_sent) : IsReport(kbd_wire[i], kbd_sent[i], \hCC, 64)
    /\ \A i \in 1..Len(tron_sent) :
          IsReport(tron_wire[i], tron_sent[i], \h03, 33)

\* the key records of the chunk commands [0x8C,0x02,0x00,...] in pkts, in the
\* order sent, with the 3-byte chunk headers removed
RECURSIVE KeyRecords(_)
KeyRecords(pkts) ==
    IF pkts = <<>> THEN <<>>
    ELSE LET p == Head(pkts)
         IN  (IF Len(p) >= 3 /\ SubSeq(p, 1, 3) = <<\h8C, \h02, \h00>>
              THEN SubSeq(p, 4, Len(p)) ELSE <<>>)
                 \o KeyRecords(Tail(pkts))

\* C15: the chunk commands of a static keyboard run address the key indices
\* 0x00..0x87 exactly once each, ascending, key k as the four bytes
\* (k+1, r, g, b) of the requested colour; every chunk holds whole records,
\* so none is split, skipped or repeated at a chunk boundary, and the wire
\* indices are 1..0x88.
C15_EveryKeyOnce ==
    (KbdReturned /\ cmd \in {"static", "off"}) =>
        LET rgb == IF cmd = "off" THEN <<0, 0, 0>> ELSE FirstRGB
            recs == KeyRecords(kbd_sent)
        IN  /\ Len(recs) = 4 * \h88
            /\ \A k \in 0..\h87 :
                  /\ SubSeq(recs, 4 * k + 1, 4 * k + 4) = <<k + 1>> \o rgb
                  /\ recs[4 * k + 1] \in 1..\h88
            /\ \A i \in 1..Len(kbd_sent) :
                  (/\ Len(kbd_sent[i]) >= 3
                   /\ SubSeq(kbd_sent[i], 1, 3) = <<\h8C, \h02, \h00>>) =>
                      (Len(kbd_sent[i]) - 3) % 4 = 0

C15_Witness ==
    /\ KbdReturned
    /\ cmd = "static"
    /\ color_args # <<>>
    /\ FirstRGB = <<0, 255, 0>>
    /\ SubSeq(kbd_sent[3], 4, 7) = <<1, 0, 255, 0>>
    /\ SubSeq(kbd_sent[12], 4, 7) = <<\h88, 0, 255, 0>>

PktRingStart == <<\h21, \h00, \h01, \h00, \hFF>>

\* a call of _set_ring has returned
RingRunDone ==
    \/ pc = "returned" /\ call[1] = "_set_ring"
    \/ TronReturned /\ do_ring_actual

\* the packets that only a logo programming run sends
IsLogoPkt(p) == p[1] = \h22 \/ p = PktSelectLogos \/ p = PktLogoPlay

\* C16: a run of _set_ring sends exactly five packets: clear, start-new,
\* select [0x23,1,0,zoneCount,zones...], action [0x24,action...], play, in
\* that order; and when ring and logos are both targeted, no packet of the
\* logo run is sent until the ring run's play packet has been sent.
C16_RingRun ==
    /\ RingRunDone =>
          LET zones == IF pc = "returned" THEN call[3] ELSE RING_ZONES
              clears == {i \in 1..Len(tron_sent) : tron_sent[i] = PktRingClear}
          IN  /\ Cardinality(clears) = 1
              /\ Len(tron_sent) =
                    5 + (IF pc # "returned" /\ do_logos_actual THEN 32 ELSE 0)
              /\ \A i \in clears :
                    /\ i + 4 <= Len(tron_sent)
                    /\ tron_sent[i + 1] = PktRingStart
                    /\ tron_sent[i + 2] = <<\h23, \h01, \h00, Len(zones)>>
                                              \o zones
                    /\ tron_sent[i + 3][1] = \h24
                    /\ pc = "returned" =>
                          tron_sent[i + 3] = <<\h24>> \o call[2]
                    /\ tron_sent[i + 4] = PktRingPlay
    /\ (do_ring_actual /\ do_logos_actual) =>
          /\ Len(tron_sent) >= 6 =>
                /\ tron_sent[1] = PktRingClear
                /\ tron_sent[5] = PktRingPlay
          /\ \A j \in 1..Len(tron_sent) : IsLogoPkt(tron_sent[j]) => j > 6

C16_Witness ==
    /\ TronReturned
    /\ cmd = "breathe"
    /\ do_ring_actual
    /\ do_logos_actual
    /\ Len(tron_sent) = 37
    /\ tron_sent[1] = PktRingClear
    /\ tron_sent[3] = PktSelectRing
    /\ tron_sent[5] = PktRingPlay
    /\ tron_sent[7][1] = \h22

\* C17: a logo programming run starts with the commit packet
\* [0x21,0,3,0,0xFF]; then the power states 0x5B..0x60 follow in that order,
\* each once: remove, start-new, select, action, save, the three 0x22 packets
\* carrying the state's code, and the remove of the next state comes right
\* after the save of the one before.
C17_LogoOrder ==
    LogoRunDone =>
        LET run == LogoRun
            Idx(kind, st) ==
                {i \in 1..Len(run) : run[i] = <<\h22, \h00, kind, \h00, st>>}
        IN  /\ run[1] = <<\h21, \h00, \h03, \h00, \hFF>>
            /\ Idx(4, \h5B) = {2}
            /\ \A st \in \h5B..\h60 :
                  \E r \in 1..(Len(run) - 4) :
                      /\ Idx(4, st) = {r}
                      /\ Idx(1, st) = {r + 1}
                      /\ run[r + 2][1] = \h23
                      /\ run[r + 3][1] = \h24
                      /\ pc = "returned" =>
                            /\ run[r + 2] = <<\h23, \h01, \h00, Len(call[3])>>
                                                \o call[3]
                            /\ run[r + 3] = <<\h24>> \o call[2]
                      /\ Idx(2, st) = {r + 4}
                      /\ st < \h60 => Idx(4, st + 1) = {r + 5}
            /\ \A i \in 1..Len(run) :
                  run[i][1] = \h22 =>
                      run[i][3] \in {4, 1, 2} /\ run[i][5] \in \h5B..\h60

C17_Witness ==
    /\ pc = "returned"
    /\ call[1] = "_set_logos"
    /\ call[2] = TronPulseAction(0, 255, 0)
    /\ call[3] = <<1, 0>>
    /\ tron_sent[1] = PktRingPlay
    /\ tron_sent[2] = <<\h22, \h00, \h04, \h00, \h5B>>
    /\ tron_sent[31] = <<\h22, \h00, \h02, \h00, \h60>>

\* trace[j] is a write to the bind control file, completed or failed
IsBindWrite(j) == trace[j][1] = "write" /\ trace[j][2] = "bind"

\* C18: in a driver rebind, every write to the bind control file comes after
\* a write of the same identifier to the unbind control file made by the same
\* writer (the process itself, or the privileged helper) in that rebind,
\* with the pause between the two.
C18_UnbindBeforeBind ==
    \A j \in 1..Len(trace) :
        IsBindWrite(j) =>
            \E m, i, k \in 1..j :
                /\ m < i /\ i < k /\ k < j
                /\ trace[m] = <<"kbd._rebind">>
                /\ trace[i] =
                      SysWrite("unbind",
                               IF Len(trace[j]) = 4 THEN trace[j][4]
                               ELSE "direct")
                /\ Len(trace[j]) = 4 => trace[i][3] = trace[j][3]
                /\ trace[k] = <<"sleep">>

C18_Witness ==
    /\ pc = "done"
    /\ InTrace(SysWrite("unbind", "direct"))
    /\ InTrace(<<"pkexec", "ran">>)
    /\ InTrace(SysWrite("unbind", "pkexec"))
    /\ trace[Len(trace) - 1] = SysWrite("bind", "pkexec")

\* a step of _rebind raised an exception that _rebind does not catch
RebindRaised ==
    \E i \in 1..Len(trace) :
        /\ trace[i][1] \in {"write", "pkexec"}
        /\ trace[i][Len(trace[i])] \in {"OSError", "FileNotFoundError"}

\* C19: a failing rebind is never fatal.  With the descriptor file missing
\* there is no unbind/bind write and no helper; the helper is invoked only
\* in place of a direct bind that did not complete; and whatever fails in
\* the rebind, Keyboard.close returns normally and the AW-ELC session is
\* closed afterwards.
C19_RebindNeverFatal ==
    (pc = "done" /\ RebindAttempted) =>
        /\ InTrace(<<"uevent", "missing">>) =>
              ~Called("write") /\ ~Called("pkexec")
        /\ Called("pkexec") => ~InTrace(SysWrite("bind", "direct"))
        /\ ~RebindRaised
        /\ tron_fd = "None"

\* main() examined the command and found it unknown
UnknownReported == \E i \in 1..Len(stderr) : stderr[i] = "Unknown command"

\* C20: for an unrecognised command no packet is sent to either controller;
\* when the command is examined the sessions of the resolved targets have
\* already been opened; and the run then ends with exit status 1 after
\* closing the keyboard session and attempting the driver rebind exactly when
\* the keyboard is targeted and present, and after closing the AW-ELC session
\* (unless the rebind itself raised).
C20_UnknownCommand ==
    (CommandGiven /\ Lower(argv_cmd) \notin Commands) =>
        /\ kbd_sent = <<>> /\ tron_sent = <<>>
        /\ UnknownReported <=> pc \in {"finally", "finally_tron", "done"}
                                  /\ ~OpenRaised
        /\ (pc = "try_kbd" \/ UnknownReported) =>
              /\ KbdFlagged <=> Called("kbd.open")
              /\ (RingFlagged \/ LogosFlagged) <=> Called("tron.open")
              /\ InTrace(<<"kbd.open", "True">>)
                    <=> (KbdFlagged /\ "kbd" \in hidraw)
              /\ InTrace(<<"tron.open", "True">>)
                    <=> ((RingFlagged \/ LogosFlagged) /\ "tron" \in hidraw)
        /\ (pc = "try_kbd" /\ KbdFlagged /\ "kbd" \in hidraw) =>
              kbd_fd = "open" /\ ~RebindAttempted
        /\ pc = "done" => exit_code = 1
        /\ (pc = "done" /\ UnknownReported) =>
              /\ kbd_fd = "None"
              /\ RebindAttempted <=> (KbdFlagged /\ "kbd" \in hidraw)
              /\ RebindAttempted => InTrace(<<"kbd.os.close">>)
              /\ ~RebindRaised => tron_fd = "None"
              /\ (~RebindRaised /\ InTrace(<<"tron.open", "True">>))
                    => trace[Len(trace)] = <<"tron.os.close">>

C20_Witness ==
    /\ pc = "done"
    /\ argv_cmd = "bogus"
    /\ flags = {}
    /\ UnknownReported
    /\ exit_code = 1
    /\ kbd_sent = <<>>
    /\ tron_sent = <<>>
    /\ InTrace(<<"kbd.open", "True">>)
    /\ InTrace(<<"tron.open", "True">>)
    /\ InTrace(SysWrite("unbind", "pkexec"))
    /\ trace[Len(trace)] = <<"tron.os.close">>

====
